---- MODULE Spec2Model ----
(***************************************************************************)
(* create_eslint_standard.py: translation of ESLint rule declarations into *)
(* Codacy patterns, reconciliation against the remote pattern catalog,     *)
(* batched pattern updates with retries, and the run of main.              *)
(*                                                                         *)
(* Identifiers are sequences of characters, so that startswith, slicing    *)
(* and replace act on them as they do in the source.  JSON values are      *)
(* tagged records [t, v].                                                  *)
(***************************************************************************)
EXTENDS Integers, Sequences, FiniteSets, TLC

VARIABLES
    t_pc,        \* map_eslint_rule_to_codacy: "call" | "returned" | "idle"
    rule_name,   \* its rule_name argument
    rule_config, \* its rule_config argument
    t_out,       \* its return value (NoPattern for None)
    pc,          \* position of the single thread of control
    frame,       \* the function the run entered: "main" | "tool" | "batch"
    outcome,     \* how the run ended ("running" until then)
    provider,    \* args.provider
    config_file, \* the file at args.eslint_config
    eslint_rules,        \* main: result of parse_eslint_config
    new_patterns,        \* main: the translated patterns
    coding_standard_id,  \* main: id of the created standard ("" before)
    tools,       \* disable_all_tools: the listed tool uuids
    tool_i,      \* disable_all_tools: index of the tool being disabled
    retries,     \* retries left in the retry loop that is running
    pages,       \* the remote catalog of the ESLint tool, page by page
    cursor,      \* list_tool_patterns: cursor (0 is None)
    all_patterns,        \* list_tool_patterns: patterns fetched so far
    tool_patterns,       \* update_coding_standard_tool: its patterns argument
    enabled_patterns,    \* update_coding_standard_tool: enable-directives
    disabled_patterns,   \* update_coding_standard_tool: disable-directives
    phase,       \* which list batch_update_patterns is pushing
    b_patterns,  \* batch_update_patterns: its patterns argument
    batch_size,  \* batch_update_patterns: its batch_size argument
    b_i,         \* batch_update_patterns: loop variable i
    calls,       \* every remote call issued so far, in order, with its outcome
    failures,    \* number of failed remote calls so far
    result_file  \* the results written to <name>_result.json, in order

tvars == <<t_pc, rule_name, rule_config, t_out>>
mainvars == <<provider, config_file, eslint_rules, new_patterns, coding_standard_id>>
disablevars == <<tools, tool_i>>
listvars == <<pages, cursor, all_patterns>>
toolvars == <<tool_patterns, enabled_patterns, disabled_patterns, phase>>
batchvars == <<b_patterns, batch_size, b_i>>
vars == <<t_pc, rule_name, rule_config, t_out, pc, frame, outcome, provider,
          config_file, eslint_rules, new_patterns, coding_standard_id, tools,
          tool_i, retries, pages, cursor, all_patterns, tool_patterns,
          enabled_patterns, disabled_patterns, phase, b_patterns, batch_size,
          b_i, calls, failures, result_file>>

(***************************************************************************)
(* JSON / Python values                                                    *)
(***************************************************************************)
PyInt(n)   == [t |-> "int", v |-> n]
PyBool(b)  == [t |-> "bool", v |-> b]
\* a float, held in tenths: 2.0 is PyFloat(20), 1.5 is PyFloat(15)
PyFloat(n) == [t |-> "float", v |-> n]
PyStr(s)   == [t |-> "str", v |-> s]
PyList(s)  == [t |-> "list", v |-> s]
\* a dict keeps insertion order: a sequence of [name, value] with distinct names
PyDict(s)  == [t |-> "dict", v |-> s]
PyNone     == [t |-> "none", v |-> 0]

\* isinstance(x, (int, float)); bool is a subclass of int
IsNumber(x) == x.t \in {"int", "bool", "float"}

\* x == n for a Python value x and an integer literal n
PyEq(x, n) ==
    \/ x.t = "int" /\ x.v = n
    \/ x.t = "bool" /\ (IF x.v THEN 1 ELSE 0) = n
    \/ x.t = "float" /\ x.v = 10 * n

\* truthiness of a value (if parameters ...)
Truthy(x) ==
    CASE x.t = "none" -> FALSE
      [] x.t = "int" -> x.v # 0
      [] x.t = "float" -> x.v # 0
      [] x.t = "bool" -> x.v
      [] x.t = "str" -> x.v # ""
      [] x.t = "list" -> x.v # <<>>
      [] x.t = "dict" -> x.v # <<>>

Digits == <<"0", "1", "2", "3", "4", "5", "6", "7", "8", "9">>

RECURSIVE IntText(_)
\* str(n) of an integer
IntText(n) ==
    IF n < 0 THEN "-" \o IntText(0 - n)
    ELSE IF n < 10 THEN Digits[n + 1]
    ELSE IntText(n \div 10) \o Digits[(n % 10) + 1]

\* str(x) of a float held in tenths
FloatText(n) ==
    IF n < 0 THEN "-" \o IntText((0 - n) \div 10) \o "." \o IntText((0 - n) % 10)
    ELSE IntText(n \div 10) \o "." \o IntText(n % 10)

RECURSIVE JsonDumps(_), JsonItems(_), JsonMembers(_)
\* json.dumps(x) with the default separators
JsonDumps(x) ==
    CASE x.t = "none" -> "null"
      [] x.t = "int" -> IntText(x.v)
      [] x.t = "float" -> FloatText(x.v)
      [] x.t = "bool" -> IF x.v THEN "true" ELSE "false"
      [] x.t = "str" -> "\"" \o x.v \o "\""
      [] x.t = "list" -> "[" \o JsonItems(x.v) \o "]"
      [] x.t = "dict" -> "{" \o JsonMembers(x.v) \o "}"
JsonItems(s) ==
    IF s = <<>> THEN ""
    ELSE IF Len(s) = 1 THEN JsonDumps(s[1])
    ELSE JsonDumps(s[1]) \o ", " \o JsonItems(Tail(s))
JsonMembers(s) ==
    IF s = <<>> THEN ""
    ELSE IF Len(s) = 1 THEN "\"" \o s[1].name \o "\": " \o JsonDumps(s[1].value)
    ELSE "\"" \o s[1].name \o "\": " \o JsonDumps(s[1].value) \o ", " \o JsonMembers(Tail(s))

\* str(x) of a value that is no list and no dict
StrOf(x) ==
    CASE x.t = "none" -> "None"
      [] x.t = "int" -> IntText(x.v)
      [] x.t = "float" -> FloatText(x.v)
      [] x.t = "bool" -> IF x.v THEN "True" ELSE "False"
      [] x.t = "str" -> x.v

(***************************************************************************)
(* map_eslint_rule_to_codacy                                               *)
(***************************************************************************)
NoPattern == [some |-> FALSE, id |-> <<>>, patternId |-> <<>>, enabled |-> FALSE,
              hasParameters |-> FALSE, parameters |-> <<>>]

\* one entry of mapped_parameters
MappedParam(p) ==
    [name |-> p.name,
     value |-> IF p.value.t \in {"list", "dict"} THEN JsonDumps(p.value)
               ELSE StrOf(p.value)]

MappedParameters(parameters) ==
    [i \in 1..Len(parameters.v) |-> MappedParam(parameters.v[i])]

\* the severity after "if isinstance(severity, (int, float))"
NormalSeverity(severity) ==
    IF IsNumber(severity)
    THEN (IF PyEq(severity, 2) THEN PyStr("error") ELSE PyStr("warn"))
    ELSE severity

\* severity in ['error', 'warn', 2, 1]
SeverityEnabled(severity) ==
    \/ severity.t = "str" /\ severity.v \in {"error", "warn"}
    \/ PyEq(severity, 2)
    \/ PyEq(severity, 1)

\* the pattern built once severity and parameters are known
BuildPattern(name, severity, parameters) ==
    IF ~SeverityEnabled(NormalSeverity(severity)) THEN NoPattern
    ELSE LET withParams == Truthy(parameters) /\ parameters.t = "dict"
         IN  [some |-> TRUE, id |-> name, patternId |-> name, enabled |-> TRUE,
              hasParameters |-> withParams,
              parameters |-> IF withParams THEN MappedParameters(parameters)
                             ELSE <<>>]

\* the branch on the type of rule_config, after a number became [severity]
MapByType(name, config) ==
    CASE config.t = "list" ->
            \* rule_config[0] of an empty list raises IndexError: caught, None
            IF config.v = <<>> THEN NoPattern
            ELSE BuildPattern(name, config.v[1],
                              IF Len(config.v) > 1 THEN config.v[2] ELSE PyNone)
      [] config.t = "str" -> BuildPattern(name, config, PyNone)
      [] config.t = "dict" -> BuildPattern(name, PyStr("error"), config)
      [] OTHER -> NoPattern

map_eslint_rule_to_codacy(name, config) ==
    IF IsNumber(config)
    THEN IF PyEq(config, 0) THEN NoPattern
         ELSE MapByType(name, PyList(<<IF PyEq(config, 2) THEN PyStr("error")
                                        ELSE PyStr("warn")>>))
    ELSE MapByType(name, config)

(***************************************************************************)
(* Inputs of the translator                                                *)
(***************************************************************************)
RuleA  == <<"a">>
RulePA == <<"p", "/", "a">>
RuleB  == <<"b">>
RuleNames == {RuleA, RulePA, RuleB}

Severities ==
    {PyInt(0), PyInt(1), PyInt(2), PyInt(3), PyInt(0 - 1),
     PyBool(TRUE), PyBool(FALSE),
     PyFloat(0), PyFloat(20), PyFloat(15),
     PyStr("off"), PyStr("warn"), PyStr("error"), PyStr("always"), PyStr(""),
     PyNone}

ParamDicts ==
    {PyDict(<<>>),
     PyDict(<<[name |-> "max", value |-> PyInt(10)]>>),
     PyDict(<<[name |-> "allow", value |-> PyList(<<PyStr("x"), PyInt(1)>>)],
              [name |-> "strict", value |-> PyBool(TRUE)]>>),
     PyDict(<<[name |-> "opts", value |-> PyDict(<<[name |-> "k", value |-> PyNone]>>)]>>)}

Payloads == ParamDicts \cup {PyStr("always"), PyList(<<PyStr("x")>>)}

RuleConfigs ==
    Severities
    \cup ParamDicts
    \cup {PyList(<<>>)}
    \cup {PyList(<<s>>) : s \in Severities \cup {PyList(<<PyStr("error")>>)}}
    \cup {PyList(<<s, p>>) : s \in Severities, p \in Payloads}


(***************************************************************************)
(* Identifiers and the remote catalog                                      *)
(***************************************************************************)
ESLINT_TOOL_UUID == "f8b29663-2cb2-498d-b923-a10c6a8c05cd"
ESLint8 == <<"E", "S", "L", "i", "n", "t", "8", "_">>
\* the 8 of pattern_id[8:]
PrefixLen == 8
RETRIES == 3
DEFAULT_BATCH_SIZE == 1000

\* s.startswith(prefix)
StartsWith(s, prefix) ==
    Len(s) >= Len(prefix) /\ SubSeq(s, 1, Len(prefix)) = prefix

\* s[n:]
DropFirst(s, n) == SubSeq(s, n + 1, Len(s))

\* s.replace('/', '_')
ReplaceSlash(s) == [i \in 1..Len(s) |-> IF s[i] = "/" THEN "_" ELSE s[i]]

\* a catalog entry: hasId is "'patternDefinition' in pattern and 'id' in
\* pattern['patternDefinition']"
Entry(id) == [hasId |-> TRUE, id |-> id]
NoIdEntry == [hasId |-> FALSE, id |-> <<>>]

RulePUA == <<"p", "_", "a">>
CatalogEntries ==
    {Entry(ESLint8 \o RuleA), Entry(ESLint8 \o RulePA), Entry(ESLint8 \o RulePUA),
     Entry(RuleA), NoIdEntry}

(***************************************************************************)
(* update_coding_standard_tool: the reconciliation                         *)
(***************************************************************************)
\* d[k] = v on a dict held as a function
Put(d, k, v) == [x \in (DOMAIN d) \cup {k} |-> IF x = k THEN v ELSE d[x]]

EmptyDict == [x \in {} |-> <<>>]

\* base_id of a pattern_id
BaseId(pattern_id) ==
    IF StartsWith(pattern_id, ESLint8) THEN DropFirst(pattern_id, PrefixLen)
    ELSE pattern_id

RECURSIVE PatternMappingFrom(_, _)
\* the loop that fills pattern_mapping, from the dict d on
PatternMappingFrom(d, patterns) ==
    IF patterns = <<>> THEN d
    ELSE LET pattern == Head(patterns)
         IN  IF pattern.hasId
             THEN PatternMappingFrom(
                      Put(Put(d, BaseId(pattern.id), pattern.id),
                          ReplaceSlash(BaseId(pattern.id)), pattern.id),
                      Tail(patterns))
             ELSE PatternMappingFrom(d, Tail(patterns))

PatternMapping(patterns) == PatternMappingFrom(EmptyDict, patterns)

\* find_matching_pattern's answer: the matched key, prefixed again
FindReprefixed(pattern_mapping, name) ==
    IF name \in DOMAIN pattern_mapping THEN ESLint8 \o name
    ELSE IF ReplaceSlash(name) \in DOMAIN pattern_mapping
         THEN ESLint8 \o ReplaceSlash(name)
         ELSE <<>>

\* a lookup that tries the normalized name before the name itself
FindNormalizedFirst(pattern_mapping, name) ==
    IF ReplaceSlash(name) \in DOMAIN pattern_mapping
    THEN pattern_mapping[ReplaceSlash(name)]
    ELSE IF name \in DOMAIN pattern_mapping THEN pattern_mapping[name]
         ELSE <<>>

\* codacy_id of a rule: <<>> stands for None (an empty id is falsy as well)
FindCodacyId(pattern_mapping, name) ==
    IF name \in DOMAIN pattern_mapping THEN pattern_mapping[name]
    ELSE IF ReplaceSlash(name) \in DOMAIN pattern_mapping
         THEN pattern_mapping[ReplaceSlash(name)]
         ELSE <<>>

\* pattern.get("parameters", [])
GetParameters(pattern) ==
    IF pattern.hasParameters THEN pattern.parameters ELSE <<>>

EnableDirective(codacy_id, pattern) ==
    [id |-> codacy_id, enabled |-> TRUE, parameters |-> GetParameters(pattern)]

RECURSIVE EnabledPatterns(_, _)
\* the loop "Process patterns from config"
EnabledPatterns(pattern_mapping, patterns) ==
    IF patterns = <<>> THEN <<>>
    ELSE LET codacy_id == FindCodacyId(pattern_mapping, Head(patterns).id)
             rest == EnabledPatterns(pattern_mapping, Tail(patterns))
         IN  IF codacy_id # <<>>
             THEN <<EnableDirective(codacy_id, Head(patterns))>> \o rest
             ELSE rest

\* any(ep['id'] == pattern_id for ep in enabled_patterns)
IsEnabledId(enabled, pattern_id) ==
    \E i \in 1..Len(enabled) : enabled[i].id = pattern_id

DisableDirective(pattern_id) ==
    [id |-> pattern_id, enabled |-> FALSE, parameters |-> <<>>]

\* a disable list that holds the whole catalog
DisableAll(patterns, enabled) ==
    LET withId == SelectSeq(patterns, LAMBDA e : e.hasId)
    IN  [i \in 1..Len(withId) |-> DisableDirective(withId[i].id)]

RECURSIVE DisabledPatterns(_, _)
\* the loop "Disable all other patterns"
DisabledPatterns(patterns, enabled) ==
    IF patterns = <<>> THEN <<>>
    ELSE LET rest == DisabledPatterns(Tail(patterns), enabled)
         IN  IF Head(patterns).hasId /\ ~IsEnabledId(enabled, Head(patterns).id)
             THEN <<DisableDirective(Head(patterns).id)>> \o rest
             ELSE rest

(***************************************************************************)
(* Remote calls                                                            *)
(***************************************************************************)
\* what a failed call raises: an HTTPError for a 4xx response with a body, or
\* another RequestException (connection error, timeout)
FailureKinds == {"http4xx", "connection"}

Call(op, tool, cur, patterns, res) ==
    [op |-> op, tool |-> tool, cursor |-> cur, patterns |-> patterns, res |-> res]

\* the page the service returns for a cursor, and the cursor it returns with it
ServerPage(catalog, cur) ==
    [has |-> catalog[cur + 1].has,
     data |-> catalog[cur + 1].data,
     cursor |-> IF cur + 1 < Len(catalog) THEN cur + 1 ELSE 0]

\* a slice one short: patterns[i:i + batch_size - 1]
BatchShort(patterns, i, size) ==
    SubSeq(patterns, i + 1,
           IF i + size - 1 < Len(patterns) THEN i + size - 1 ELSE Len(patterns))

\* patterns[i:i + batch_size]
Batch(patterns, i, size) ==
    SubSeq(patterns, i + 1, IF i + size < Len(patterns) THEN i + size ELSE Len(patterns))

(***************************************************************************)
(* Bounds                                                                  *)
(***************************************************************************)
MaxTools == 2         \* tools the service lists for a standard
MaxFailures == 3      \* failed remote calls in one run
MaxCatalog == 3       \* patterns in the catalog of update_coding_standard_tool
MaxPatterns == 2      \* translated patterns given to update_coding_standard_tool
MaxDirectives == 5    \* directives given to batch_update_patterns
MaxBatchSize == 3     \* batch_size given to batch_update_patterns

(***************************************************************************)
(* main: the local steps                                                   *)
(***************************************************************************)
None == [some |-> FALSE, rules |-> <<>>]
Some(rules) == [some |-> TRUE, rules |-> rules]

Rule(name, config) == [name |-> name, config |-> config]

\* the "rules" objects of the configurations a run is given
RunRuleSets ==
    {<<>>,
     <<Rule(RuleA, PyInt(0)), Rule(RuleB, PyStr("off"))>>,
     <<Rule(RuleA, PyStr("error"))>>,
     <<Rule(RuleB, PyInt(2))>>,
     <<Rule(RuleA, PyList(<<PyStr("warn"), PyDict(<<[name |-> "max", value |-> PyInt(10)]>>)>>)),
       Rule(RulePA, PyInt(2)),
       Rule(RuleB, PyInt(1))>>}

\* The file at args.eslint_config.  kind says what its content is: "empty"
\* (nothing but whitespace), "unparseable" (json.loads rejects the cleaned
\* text), "not_object" (the cleaned text is JSON but no object) or "object",
\* an object whose "rules" member is rules.
ConfigFile(exists, kind, rules) == [exists |-> exists, kind |-> kind, rules |-> rules]

ConfigFiles ==
    {ConfigFile(FALSE, "missing", <<>>)}
    \cup {ConfigFile(TRUE, k, <<>>) : k \in {"empty", "unparseable", "not_object"}}
    \cup {ConfigFile(TRUE, "object", r) : r \in RunRuleSets}

Providers == {"gh", "gl", "bb", "github"}

\* a check that lets every provider through
AnyProvider(p) == TRUE

ValidProvider(p) == p \in {"gh", "gl", "bb"}

parse_eslint_config(file) ==
    IF file.kind = "object" THEN Some(file.rules) ELSE None

RECURSIVE MapRules(_)
\* the loop "Map rules to patterns" of main
MapRules(rules) ==
    IF rules = <<>> THEN <<>>
    ELSE LET pattern == map_eslint_rule_to_codacy(Head(rules).name, Head(rules).config)
         IN  IF pattern.some THEN <<pattern>> \o MapRules(Tail(rules))
             ELSE MapRules(Tail(rules))

\* main returns before the try block or from inside it without an exception
Return(how) ==
    /\ pc' = "done"
    /\ outcome' = how

\* an exception leaves the function that was entered: main catches it and
\* reports it, update_coding_standard_tool and batch_update_patterns raise it
\* (the outcome is then the exception)
Raise(kind) ==
    /\ pc' = "done"
    /\ outcome' = IF frame = "main"
                  THEN (IF kind = "http4xx" THEN "http_error" ELSE "exception")
                  ELSE kind

CheckProvider ==
    /\ pc = "main"
    /\ IF ValidProvider(provider)
       THEN pc' = "check_file" /\ UNCHANGED outcome
       ELSE Return("input_error")
    /\ UNCHANGED <<tvars, frame, mainvars, disablevars, retries, listvars,
                   toolvars, batchvars, calls, failures, result_file>>

CheckFile ==
    /\ pc = "check_file"
    /\ IF config_file.exists
       THEN pc' = "parse" /\ UNCHANGED outcome
       ELSE Return("input_error")
    /\ UNCHANGED <<tvars, frame, mainvars, disablevars, retries, listvars,
                   toolvars, batchvars, calls, failures, result_file>>

ParseConfig ==
    /\ pc = "parse"
    /\ eslint_rules' = parse_eslint_config(config_file)
    /\ IF eslint_rules'.some
       THEN pc' = "map" /\ UNCHANGED outcome
       ELSE Return("input_error")
    /\ UNCHANGED <<tvars, frame, provider, config_file, new_patterns,
                   coding_standard_id, disablevars, retries, listvars,
                   toolvars, batchvars, calls, failures, result_file>>

MapPatterns ==
    /\ pc = "map"
    /\ new_patterns' = MapRules(eslint_rules.rules)
    /\ IF new_patterns' # <<>>
       THEN pc' = "create" /\ UNCHANGED outcome
       ELSE Return("no_patterns")
    /\ UNCHANGED <<tvars, frame, provider, config_file, eslint_rules,
                   coding_standard_id, disablevars, retries, listvars,
                   toolvars, batchvars, calls, failures, result_file>>

(***************************************************************************)
(* create_coding_standard, promote_coding_standard                         *)
(***************************************************************************)
CreateOk ==
    /\ pc = "create"
    /\ calls' = Append(calls, Call("create", "", 0, <<>>, "ok"))
    /\ coding_standard_id' = "cs-1"
    /\ pc' = "list_tools"
    /\ UNCHANGED <<tvars, frame, outcome, provider, config_file, eslint_rules,
                   new_patterns, disablevars, retries, listvars, toolvars,
                   batchvars, failures, result_file>>

CreateFail ==
    /\ pc = "create"
    /\ failures < MaxFailures
    /\ \E kind \in FailureKinds :
          /\ calls' = Append(calls, Call("create", "", 0, <<>>, kind))
          /\ Raise(kind)
    /\ failures' = failures + 1
    /\ UNCHANGED <<tvars, frame, mainvars, disablevars, retries, listvars,
                   toolvars, batchvars, result_file>>

PromoteOk ==
    /\ pc = "promote"
    /\ calls' = Append(calls, Call("promote", "", 0, <<>>, "ok"))
    /\ pc' = "write"
    /\ UNCHANGED <<tvars, frame, outcome, mainvars, disablevars, retries,
                   listvars, toolvars, batchvars, failures, result_file>>

PromoteFail ==
    /\ pc = "promote"
    /\ failures < MaxFailures
    /\ \E kind \in FailureKinds :
          /\ calls' = Append(calls, Call("promote", "", 0, <<>>, kind))
          /\ Raise(kind)
    /\ failures' = failures + 1
    /\ UNCHANGED <<tvars, frame, mainvars, disablevars, retries, listvars,
                   toolvars, batchvars, result_file>>

\* "Save results": the result dict of main, dumped to the result file
WriteResult ==
    /\ pc = "write"
    /\ result_file' = Append(result_file,
                             [standard_id |-> coding_standard_id,
                              provider |-> provider,
                              patterns_count |-> Len(new_patterns),
                              patterns |-> new_patterns])
    /\ Return("ok")
    /\ UNCHANGED <<tvars, frame, mainvars, disablevars, retries, listvars,
                   toolvars, batchvars, calls, failures>>

(***************************************************************************)
(* disable_all_tools                                                       *)
(***************************************************************************)
\* the uuid of the i-th tool the service lists
Tool(i) == IF i = 1 THEN ESLINT_TOOL_UUID ELSE "tool-" \o IntText(i)

ListToolsOk ==
    /\ pc = "list_tools"
    /\ calls' = Append(calls, Call("list_tools", "", 0, <<>>, "ok"))
    /\ \E n \in 0..MaxTools : tools' = [i \in 1..n |-> Tool(i)]
    /\ tool_i' = 1
    /\ pc' = "disable_loop"
    /\ UNCHANGED <<tvars, frame, outcome, mainvars, retries, listvars,
                   toolvars, batchvars, failures, result_file>>

ListToolsFail ==
    /\ pc = "list_tools"
    /\ failures < MaxFailures
    /\ \E kind \in FailureKinds :
          /\ calls' = Append(calls, Call("list_tools", "", 0, <<>>, kind))
          /\ Raise(kind)
    /\ failures' = failures + 1
    /\ UNCHANGED <<tvars, frame, mainvars, disablevars, retries, listvars,
                   toolvars, batchvars, result_file>>

\* the next tool of "for tool in tqdm(tools)": retries = 3
DisableBegin ==
    /\ pc = "disable_loop"
    /\ tool_i <= Len(tools)
    /\ retries' = RETRIES
    /\ pc' = "disable_call"
    /\ UNCHANGED <<tvars, frame, outcome, mainvars, disablevars, listvars,
                   toolvars, batchvars, calls, failures, result_file>>

\* the loop is over: main goes on to
\* update_coding_standard_tool(..., ESLINT_TOOL_UUID, True, new_patterns, ...)
DisableEnd ==
    /\ pc = "disable_loop"
    /\ tool_i > Len(tools)
    /\ tool_patterns' = new_patterns
    /\ cursor' = 0
    /\ all_patterns' = <<>>
    /\ pc' = "list_page"
    /\ UNCHANGED <<tvars, frame, outcome, mainvars, disablevars, retries, pages,
                   enabled_patterns, disabled_patterns, phase, batchvars, calls,
                   failures, result_file>>

\* update_coding_standard_tool(..., tool['uuid'], False, [], ...) succeeds
DisableOk ==
    /\ pc = "disable_call"
    /\ calls' = Append(calls, Call("disable", tools[tool_i], 0, <<>>, "ok"))
    /\ tool_i' = tool_i + 1
    /\ pc' = "disable_loop"
    /\ UNCHANGED <<tvars, frame, outcome, mainvars, tools, retries, listvars,
                   toolvars, batchvars, failures, result_file>>

\* the retry loop's next position once a call raised: the loop ends (break)
\* when no retry is left, and the for loop goes to the next tool
DisableAfterFail(left) ==
    IF left = 0
    THEN pc' = "disable_loop" /\ tool_i' = tool_i + 1
    ELSE pc' = "disable_call" /\ UNCHANGED tool_i

\* it raises: "except Exception" catches whatever was raised
DisableFail ==
    /\ pc = "disable_call"
    /\ failures < MaxFailures
    /\ \E kind \in FailureKinds :
          calls' = Append(calls, Call("disable", tools[tool_i], 0, <<>>, kind))
    /\ failures' = failures + 1
    /\ retries' = retries - 1
    /\ DisableAfterFail(retries')
    /\ UNCHANGED <<tvars, frame, outcome, mainvars, tools, listvars, toolvars,
                   batchvars, result_file>>

(***************************************************************************)
(* list_tool_patterns                                                      *)
(***************************************************************************)
\* all_patterns once a page arrived
Extend(patterns, page) == IF page.has THEN patterns \o page.data ELSE patterns

\* a loop that stops at the first page
AfterPageOnce(page) == "reconcile"

\* where the while loop goes once a page arrived: "if not cursor: break"
AfterPage(page) == IF page.cursor = 0 THEN "reconcile" ELSE "list_page"

\* the cursor the next request carries
RequestCursor == cursor

ListPageOk ==
    /\ pc = "list_page"
    /\ LET page == ServerPage(pages, RequestCursor)
       IN  /\ calls' = Append(calls, Call("list_patterns", ESLINT_TOOL_UUID,
                                          RequestCursor, <<>>, "ok"))
           /\ all_patterns' = Extend(all_patterns, page)
           /\ cursor' = page.cursor
           /\ pc' = AfterPage(page)
    /\ UNCHANGED <<tvars, frame, outcome, mainvars, disablevars, retries, pages,
                   toolvars, batchvars, failures, result_file>>

ListPageFail ==
    /\ pc = "list_page"
    /\ failures < MaxFailures
    /\ \E kind \in FailureKinds :
          /\ calls' = Append(calls, Call("list_patterns", ESLINT_TOOL_UUID,
                                         RequestCursor, <<>>, kind))
          /\ Raise(kind)
    /\ failures' = failures + 1
    /\ UNCHANGED <<tvars, frame, mainvars, disablevars, retries, listvars,
                   toolvars, batchvars, result_file>>

(***************************************************************************)
(* update_coding_standard_tool for the ESLint tool                         *)
(***************************************************************************)
Reconcile ==
    /\ pc = "reconcile"
    /\ enabled_patterns' = EnabledPatterns(PatternMapping(all_patterns), tool_patterns)
    /\ disabled_patterns' = DisabledPatterns(all_patterns, enabled_patterns')
    /\ pc' = "update_enabled"
    /\ UNCHANGED <<tvars, frame, outcome, mainvars, disablevars, retries,
                   listvars, tool_patterns, phase, batchvars, calls, failures,
                   result_file>>

\* batch_update_patterns(..., patterns, ...) is entered with the default
\* batch_size
EnterBatch(patterns, which) ==
    /\ b_patterns' = patterns
    /\ batch_size' = DEFAULT_BATCH_SIZE
    /\ b_i' = 0
    /\ phase' = which
    /\ pc' = "batch_loop"

\* update_coding_standard_tool returns {}
ToolReturn ==
    IF frame = "main" THEN pc' = "promote" /\ UNCHANGED outcome
    ELSE Return("returned")

\* "if enabled_patterns:"
UpdateEnabled ==
    /\ pc = "update_enabled"
    /\ IF enabled_patterns # <<>>
       THEN EnterBatch(enabled_patterns, "enabled")
       ELSE pc' = "update_disabled" /\ UNCHANGED <<phase, batchvars>>
    /\ UNCHANGED <<tvars, frame, outcome, mainvars, disablevars, retries,
                   listvars, tool_patterns, enabled_patterns, disabled_patterns,
                   calls, failures, result_file>>

\* "if disabled_patterns:"
UpdateDisabled ==
    /\ pc = "update_disabled"
    /\ IF disabled_patterns # <<>>
       THEN EnterBatch(disabled_patterns, "disabled") /\ UNCHANGED outcome
       ELSE ToolReturn /\ UNCHANGED <<phase, batchvars>>
    /\ UNCHANGED <<tvars, frame, mainvars, disablevars, retries, listvars,
                   tool_patterns, enabled_patterns, disabled_patterns, calls,
                   failures, result_file>>

(***************************************************************************)
(* batch_update_patterns                                                   *)
(***************************************************************************)
\* the next i of "for i in range(0, len(patterns), batch_size)": retries = 3
BatchBegin ==
    /\ pc = "batch_loop"
    /\ b_i < Len(b_patterns)
    /\ retries' = RETRIES
    /\ pc' = "batch_call"
    /\ UNCHANGED <<tvars, frame, outcome, mainvars, disablevars, listvars,
                   toolvars, batchvars, calls, failures, result_file>>

\* the range is exhausted: batch_update_patterns returns
BatchEnd ==
    /\ pc = "batch_loop"
    /\ b_i >= Len(b_patterns)
    /\ CASE frame = "batch" -> Return("returned")
         [] frame # "batch" /\ phase = "enabled" ->
                pc' = "update_disabled" /\ UNCHANGED outcome
         [] OTHER -> ToolReturn
    /\ UNCHANGED <<tvars, frame, mainvars, disablevars, retries, listvars,
                   toolvars, batchvars, calls, failures, result_file>>

\* the i of the batch after this one
NextBatchStart == b_i + batch_size

\* requests.patch succeeds: break, and the for loop goes on
BatchOk ==
    /\ pc = "batch_call"
    /\ calls' = Append(calls, Call("update", ESLINT_TOOL_UUID, 0,
                                   Batch(b_patterns, b_i, batch_size), "ok"))
    /\ b_i' = NextBatchStart
    /\ pc' = "batch_loop"
    /\ UNCHANGED <<tvars, frame, outcome, mainvars, disablevars, retries,
                   listvars, toolvars, b_patterns, batch_size, failures,
                   result_file>>

\* a retry loop that gives the batch up and goes on with the next one
BatchAfterFailGoOn(left, kind) ==
    IF left = 0
    THEN pc' = "batch_loop" /\ b_i' = NextBatchStart /\ UNCHANGED outcome
    ELSE pc' = "batch_call" /\ UNCHANGED <<outcome, b_i>>

\* the retry loop's next position once a call raised: "if retries == 0: raise"
BatchAfterFail(left, kind) ==
    IF left = 0 THEN Raise(kind) /\ UNCHANGED b_i
    ELSE pc' = "batch_call" /\ UNCHANGED <<outcome, b_i>>

\* it raises a RequestException (an HTTPError is one)
BatchFail ==
    /\ pc = "batch_call"
    /\ failures < MaxFailures
    /\ retries' = retries - 1
    /\ \E kind \in FailureKinds :
          /\ calls' = Append(calls, Call("update", ESLINT_TOOL_UUID, 0,
                                         Batch(b_patterns, b_i, batch_size), kind))
          /\ BatchAfterFail(retries', kind)
    /\ failures' = failures + 1
    /\ UNCHANGED <<tvars, frame, mainvars, disablevars, listvars, toolvars,
                   b_patterns, batch_size, result_file>>

(***************************************************************************)
(* Initial states                                                          *)
(***************************************************************************)
TranslatorIdle ==
    /\ t_pc = "idle"
    /\ rule_name = <<>>
    /\ rule_config = PyNone
    /\ t_out = NoPattern

MainIdle ==
    /\ provider = "gh"
    /\ config_file = ConfigFile(FALSE, "missing", <<>>)
    /\ eslint_rules = None
    /\ new_patterns = <<>>
    /\ coding_standard_id = ""

NothingDone ==
    /\ outcome = "running"
    /\ tools = <<>>
    /\ tool_i = 0
    /\ retries = 0
    /\ cursor = 0
    /\ all_patterns = <<>>
    /\ enabled_patterns = <<>>
    /\ disabled_patterns = <<>>
    /\ phase = "none"
    /\ b_i = 0
    /\ calls = <<>>
    /\ failures = 0
    /\ result_file = <<>>

\* a page of the catalog as the service returns it
Page(has, data) == [has |-> has, data |-> data]

RECURSIVE Chunks(_, _)
\* a catalog cut into pages of size entries (the last one may be shorter)
Chunks(entries, size) ==
    IF Len(entries) <= size THEN <<Page(TRUE, entries)>>
    ELSE <<Page(TRUE, SubSeq(entries, 1, size))>>
         \o Chunks(SubSeq(entries, size + 1, Len(entries)), size)

\* the catalogs of a run of main
RunCatalogs ==
    {<<Page(FALSE, <<>>)>>,
     <<Page(TRUE, <<Entry(ESLint8 \o RuleA), Entry(ESLint8 \o RulePUA),
                    Entry(ESLint8 \o <<"c">>)>>)>>,
     <<Page(TRUE, <<Entry(ESLint8 \o RuleA)>>),
       Page(TRUE, <<NoIdEntry, Entry(ESLint8 \o RulePUA)>>)>>}

\* main() is entered
Init ==
    /\ pc = "main"
    /\ frame = "main"
    /\ provider \in Providers
    /\ config_file \in ConfigFiles
    /\ eslint_rules = None
    /\ new_patterns = <<>>
    /\ coding_standard_id = ""
    /\ pages \in RunCatalogs
    /\ tool_patterns = <<>>
    /\ b_patterns = <<>>
    /\ batch_size = DEFAULT_BATCH_SIZE
    /\ NothingDone
    /\ TranslatorIdle

Next ==
    \/ CheckProvider \/ CheckFile \/ ParseConfig \/ MapPatterns
    \/ CreateOk \/ CreateFail
    \/ ListToolsOk \/ ListToolsFail
    \/ DisableBegin \/ DisableEnd \/ DisableOk \/ DisableFail
    \/ ListPageOk \/ ListPageFail
    \/ Reconcile \/ UpdateEnabled \/ UpdateDisabled
    \/ BatchBegin \/ BatchEnd \/ BatchOk \/ BatchFail
    \/ PromoteOk \/ PromoteFail
    \/ WriteResult

\* a run of main
Spec == Init /\ [][Next]_vars

\* the translated patterns update_coding_standard_tool is given
TranslatedPatterns ==
    {map_eslint_rule_to_codacy(n, PyStr("error")) : n \in RuleNames}
    \cup {map_eslint_rule_to_codacy(RuleA,
              PyList(<<PyStr("warn"), PyDict(<<[name |-> "max", value |-> PyInt(10)]>>)>>))}

SeqsUpTo(S, n) == UNION {[1..k -> S] : k \in 0..n}

\* the catalogs update_coding_standard_tool may find
Catalogs ==
    {<<Page(FALSE, <<>>)>>}
    \cup {Chunks(entries, size) :
              entries \in SeqsUpTo(CatalogEntries, MaxCatalog),
              size \in 1..MaxCatalog}

\* update_coding_standard_tool(..., ESLINT_TOOL_UUID, True, patterns, ...) is
\* entered
ToolInit ==
    /\ pc = "list_page"
    /\ frame = "tool"
    /\ MainIdle
    /\ pages \in Catalogs
    /\ tool_patterns \in SeqsUpTo(TranslatedPatterns, MaxPatterns)
    /\ b_patterns = <<>>
    /\ batch_size = DEFAULT_BATCH_SIZE
    /\ NothingDone
    /\ TranslatorIdle

ToolNext ==
    \/ ListPageOk
    \/ Reconcile \/ UpdateEnabled \/ UpdateDisabled
    \/ BatchBegin \/ BatchEnd \/ BatchOk

\* update_coding_standard_tool for the ESLint tool, every remote call succeeding
SpecTool == ToolInit /\ [][ToolNext]_vars

\* the directives batch_update_patterns is given
Directives ==
    {EnableDirective(ESLint8 \o RuleA, NoPattern),
     DisableDirective(ESLint8 \o RulePUA)}

\* batch_update_patterns(..., patterns, ..., batch_size) is entered
BatchInit ==
    /\ pc = "batch_loop"
    /\ frame = "batch"
    /\ MainIdle
    /\ pages = <<Page(FALSE, <<>>)>>
    /\ tool_patterns = <<>>
    /\ b_patterns \in SeqsUpTo(Directives, MaxDirectives)
    /\ batch_size \in 1..MaxBatchSize
    /\ NothingDone
    /\ TranslatorIdle

BatchNext == BatchBegin \/ BatchEnd \/ BatchOk \/ BatchFail

\* batch_update_patterns on its own
SpecBatch == BatchInit /\ [][BatchNext]_vars

(***************************************************************************)
(* The translator applied to one declaration                               *)
(***************************************************************************)
TranslateInit ==
    /\ t_pc = "call"
    /\ rule_name \in RuleNames
    /\ rule_config \in RuleConfigs
    /\ t_out = NoPattern
    /\ pc = "done"
    /\ frame = "translate"
    /\ MainIdle
    /\ pages = <<Page(FALSE, <<>>)>>
    /\ tool_patterns = <<>>
    /\ b_patterns = <<>>
    /\ batch_size = DEFAULT_BATCH_SIZE
    /\ NothingDone

Translate ==
    /\ t_pc = "call"
    /\ t_out' = map_eslint_rule_to_codacy(rule_name, rule_config)
    /\ t_pc' = "returned"
    /\ UNCHANGED <<rule_name, rule_config, pc, frame, outcome, mainvars,
                   disablevars, retries, listvars, toolvars, batchvars, calls,
                   failures, result_file>>

\* map_eslint_rule_to_codacy on its own
SpecTranslate == TranslateInit /\ [][Translate]_vars

(***************************************************************************)
(* Properties                                                              *)
(***************************************************************************)
\* the severity a declaration states: the scalar itself, or the head of a list
DeclaresSeverity(config) ==
    config.t # "dict" /\ config # PyList(<<>>)

DeclaredSeverity(config) ==
    IF config.t = "list" THEN config.v[1] ELSE config

\* one of "error", "warn", 1, 2
EnablingSeverity(s) ==
    \/ s.t = "str" /\ s.v \in {"error", "warn"}
    \/ PyEq(s, 1)
    \/ PyEq(s, 2)

\* C1: map_eslint_rule_to_codacy emits a pattern only if the declared severity
\* (the scalar value, or the first element of a list value) is one of "error",
\* "warn", 1 or 2; severity 0, "off" and every other severity yield no pattern,
\* in the scalar form and in the list form alike.
C1_PatternOnlyForEnablingSeverity ==
    (t_pc = "returned" /\ t_out.some /\ DeclaresSeverity(rule_config))
        => EnablingSeverity(DeclaredSeverity(rule_config))

\* the reconciliation of update_coding_standard_tool has run
Reconciled ==
    /\ frame \in {"tool", "main"}
    /\ \/ pc \in {"update_enabled", "update_disabled", "batch_loop", "batch_call",
                  "promote", "write"}
       \/ pc = "done" /\ outcome \in {"returned", "ok"}

\* the identifiers of the fetched catalog
CatalogIds == {all_patterns[j].id : j \in {k \in 1..Len(all_patterns) : all_patterns[k].hasId}}

EnabledIds == {enabled_patterns[i].id : i \in 1..Len(enabled_patterns)}

DisabledIds == {disabled_patterns[i].id : i \in 1..Len(disabled_patterns)}

\* C2: after the reconciliation every enable-directive's identifier is the
\* identifier of a pattern of the fetched catalog, every catalog pattern whose
\* identifier is not among the enable-directives is in the disable list with
\* enabled = false and no parameters, and no identifier is in both lists.
C2_EnableDisablePartition ==
    Reconciled =>
        /\ EnabledIds \subseteq CatalogIds
        /\ \A id \in CatalogIds \ EnabledIds :
              \E k \in 1..Len(disabled_patterns) :
                 disabled_patterns[k] = [id |-> id, enabled |-> FALSE, parameters |-> <<>>]
        /\ \A k \in 1..Len(disabled_patterns) :
              /\ ~disabled_patterns[k].enabled
              /\ disabled_patterns[k].parameters = <<>>
        /\ EnabledIds \cap DisabledIds = {}

\* a rule was matched, another was not, and catalog patterns are left to disable
C2_Witness ==
    /\ Reconciled
    /\ enabled_patterns # <<>>
    /\ disabled_patterns # <<>>
    /\ Len(enabled_patterns) < Len(tool_patterns)

\* C3 as stated: every enable-directive's identifier starts with "ESLint8_",
\* whatever the catalog holds.
C3_AlwaysPrefixed ==
    Reconciled =>
        \A i \in 1..Len(enabled_patterns) : StartsWith(enabled_patterns[i].id, ESLint8)

\* C3 as amended: every enable-directive carries an identifier exactly as the
\* fetched catalog holds it (the prefix is stripped for the lookup keys only
\* and never added back); all of them start with "ESLint8_" when every
\* identifier of the catalog does.
C3_CarriesCatalogId ==
    Reconciled =>
        /\ \A i \in 1..Len(enabled_patterns) :
              \E j \in 1..Len(all_patterns) :
                 all_patterns[j].hasId /\ all_patterns[j].id = enabled_patterns[i].id
        /\ (\A id \in CatalogIds : StartsWith(id, ESLint8))
              => \A i \in 1..Len(enabled_patterns) :
                    StartsWith(enabled_patterns[i].id, ESLint8)

\* a rule matched a catalog pattern whose identifier has no prefix
C3_Witness ==
    /\ Reconciled
    /\ \E i \in 1..Len(enabled_patterns) : ~StartsWith(enabled_patterns[i].id, ESLint8)

RECURSIVE SentPatterns(_)
\* the directives of the calls of a log, in call order
SentPatterns(log) ==
    IF log = <<>> THEN <<>> ELSE Head(log).patterns \o SentPatterns(Tail(log))

CeilDiv(n, b) == (n + b - 1) \div b

\* C4: with every update call succeeding, batch_update_patterns issues exactly
\* ceil(N/B) update calls; no call carries more than B directives, every call
\* but the last carries exactly B, and the batches in call order make up the
\* input list.
C4_BatchSplit ==
    (frame = "batch" /\ pc = "done" /\ failures = 0) =>
        /\ outcome = "returned"
        /\ Len(calls) = CeilDiv(Len(b_patterns), batch_size)
        /\ \A k \in 1..Len(calls) :
              /\ calls[k].op = "update"
              /\ calls[k].res = "ok"
              /\ Len(calls[k].patterns) <= batch_size
              /\ k < Len(calls) => Len(calls[k].patterns) = batch_size
        /\ SentPatterns(calls) = b_patterns

\* five directives in batches of two: calls of 2, 2 and 1
C4_Witness ==
    /\ frame = "batch" /\ pc = "done" /\ failures = 0
    /\ Len(b_patterns) = 5 /\ batch_size = 2
    /\ Len(calls) = 3
    /\ Len(calls[3].patterns) = 1

RECURSIVE RetriedInOrder(_, _, _)
\* The log from a call on, when the batch at pos has failed `failed` times:
\* every call carries the batch at pos; a success moves on to the next batch;
\* a failure is followed by a retry of the same batch, and the third failure
\* by nothing.
RetriedInOrder(log, pos, failed) ==
    IF log = <<>> THEN TRUE
    ELSE /\ pos < Len(b_patterns)
         /\ Head(log).op = "update"
         /\ Head(log).patterns =
               SubSeq(b_patterns, pos + 1,
                      IF pos + batch_size < Len(b_patterns) THEN pos + batch_size
                      ELSE Len(b_patterns))
         /\ IF Head(log).res = "ok"
            THEN RetriedInOrder(Tail(log), pos + batch_size, 0)
            ELSE IF failed + 1 < 3
                 THEN RetriedInOrder(Tail(log), pos, failed + 1)
                 ELSE Tail(log) = <<>>

\* the last three calls failed
ThreeFailures ==
    /\ Len(calls) >= 3
    /\ \A k \in (Len(calls) - 2)..Len(calls) : calls[k].res # "ok"

\* C5: each batch is submitted as one update call that on failure is tried
\* again, three times in all at most; a batch that succeeded is not submitted
\* again; once the third attempt of a batch has failed, that failure is raised
\* to the caller and no later batch is submitted.
C5_RetryThenRaise ==
    frame = "batch" =>
        /\ RetriedInOrder(calls, 0, 0)
        /\ ThreeFailures <=> (pc = "done" /\ outcome # "returned")
        /\ ThreeFailures => outcome = calls[Len(calls)].res

\* a first batch went through, the second failed three times, a third is unsent
C5_Witness ==
    /\ frame = "batch" /\ pc = "done"
    /\ outcome \in FailureKinds
    /\ Len(calls) = 4
    /\ calls[1].res = "ok"
    /\ calls[2].res = "connection"
    /\ calls[4].res = "http4xx"
    /\ b_i + batch_size < Len(b_patterns)

\* two calls carry the same request
SameRequest(c, d) ==
    c.op = d.op /\ c.tool = d.tool /\ c.cursor = d.cursor /\ c.patterns = d.patterns

\* C6: a batch update or a tool-disable call that was answered with a 4xx
\* response is not issued a second time.
C6_NoRetryAfter4xx ==
    \A k \in 1..(Len(calls) - 1) :
        (calls[k].op \in {"update", "disable"} /\ calls[k].res = "http4xx")
            => ~SameRequest(calls[k + 1], calls[k])

\* the call at k is the third failed attempt in a row of one disable or update
\* request: its retries are exhausted
Exhausted(k) ==
    /\ k >= 3
    /\ calls[k].op \in {"update", "disable"}
    /\ \A j \in (k - 2)..k : calls[j].res # "ok" /\ SameRequest(calls[j], calls[k])

\* C7: once the retries of a tool-disable or batch-update call are exhausted no
\* further remote call is issued and no result file is written.
C7_ExhaustionIsFatal ==
    \A k \in 1..Len(calls) :
        Exhausted(k) => (k = Len(calls) /\ result_file = <<>>)

RECURSIVE AllData(_)
\* the pages of a catalog, one after the other
AllData(catalog) ==
    IF catalog = <<>> THEN <<>>
    ELSE (IF Head(catalog).has THEN Head(catalog).data ELSE <<>>) \o AllData(Tail(catalog))

ListingCalls == SelectSeq(calls, LAMBDA c : c.op = "list_patterns")

\* C8: list_tool_patterns issues one listing call per page, the first without
\* a cursor and each later one with the cursor the previous page came with;
\* when it returns it has issued as many calls as the catalog has pages and
\* holds all pages in order; nothing is reconciled or updated before that.
C8_PaginationDrained ==
    frame = "tool" =>
        /\ Len(ListingCalls) <= Len(pages)
        /\ \A i \in 1..Len(ListingCalls) :
              /\ calls[i] = ListingCalls[i]
              /\ calls[i].cursor =
                    IF i = 1 THEN 0 ELSE ServerPage(pages, calls[i - 1].cursor).cursor
        /\ pc # "list_page" =>
              /\ Len(ListingCalls) = Len(pages)
              /\ all_patterns = AllData(pages)
        /\ pc = "list_page" =>
              /\ enabled_patterns = <<>>
              /\ disabled_patterns = <<>>
              /\ Len(ListingCalls) = Len(calls)

\* a catalog of three patterns in pages of 2 and 1 is about to be reconciled
C8_Witness ==
    /\ frame = "tool" /\ pc = "reconcile"
    /\ Len(pages) = 2
    /\ Len(pages[1].data) = 2 /\ Len(pages[2].data) = 1
    /\ Len(ListingCalls) = 2
    /\ Len(all_patterns) = 3

\* the run was given a bad provider, no file, an empty file or a file that
\* does not parse
InputError ==
    \/ ~(provider \in {"gh", "gl", "bb"})
    \/ ~config_file.exists
    \/ config_file.kind \in {"empty", "unparseable", "not_object"}

\* C9: a run with an input error issues no remote call: it ends before the
\* coding standard is created, and writes no result.
C9_InputErrorNoCall ==
    (frame = "main" /\ InputError) =>
        /\ calls = <<>>
        /\ coding_standard_id = ""
        /\ result_file = <<>>
        /\ pc \in {"main", "check_file", "parse", "done"}
        /\ pc = "done" => outcome = "input_error"

\* a run with a good provider and a file that does not parse has ended
C9_Witness ==
    /\ frame = "main" /\ pc = "done"
    /\ provider = "gh"
    /\ config_file.exists
    /\ config_file.kind = "unparseable"

\* the place of a remote call in a run of main
Rank(op) ==
    CASE op = "create" -> 1
      [] op = "list_tools" -> 2
      [] op = "disable" -> 3
      [] op = "list_patterns" -> 4
      [] op = "update" -> 5
      [] op = "promote" -> 6

OkUpdates == SelectSeq(calls, LAMBDA c : c.op = "update" /\ c.res = "ok")

Issued(op) == \E k \in 1..Len(calls) : calls[k].op = op

\* C10: the remote calls of a run come in the order create, disable (each
\* listed tool), update, promote; promote is issued only once the create call
\* and every batch of enable- and disable-directives have succeeded; the
\* result is written at most once and only after promote has succeeded.
C10_MutationOrder ==
    frame = "main" =>
        /\ \A i, j \in 1..Len(calls) :
              i < j => /\ Rank(calls[i].op) <= Rank(calls[j].op)
                       /\ calls[i].op \in {"create", "promote"} => calls[j].op # calls[i].op
        /\ Issued("update") =>
              \A t \in 1..Len(tools) :
                 \E k \in 1..Len(calls) : calls[k].op = "disable" /\ calls[k].tool = tools[t]
        /\ Issued("promote") =>
              /\ calls[1].op = "create" /\ calls[1].res = "ok"
              /\ SentPatterns(OkUpdates) = enabled_patterns \o disabled_patterns
              /\ Reconciled \/ pc = "done"
        /\ Len(result_file) <= 1
        /\ result_file # <<>> =>
              /\ calls[Len(calls)].op = "promote"
              /\ calls[Len(calls)].res = "ok"
              /\ pc = "done"

\* a run in which a disable call and a batch update were retried has written
\* its result
C10_Witness ==
    /\ frame = "main"
    /\ Len(result_file) = 1
    /\ Len(tools) = 2
    /\ \E k \in 1..Len(calls) : calls[k].op = "disable" /\ calls[k].res # "ok"
    /\ \E k \in 1..Len(calls) : calls[k].op = "update" /\ calls[k].res # "ok"
    /\ enabled_patterns # <<>>
    /\ disabled_patterns # <<>>

\* the enable-directives that went out with a successful update call
PushedEnables ==
    SelectSeq(SentPatterns(OkUpdates), LAMBDA d : d.enabled)

\* a listed pattern of the result is the directive d
ListsDirective(p, d) ==
    p.id = d.id /\ p.enabled = d.enabled /\ GetParameters(p) = d.parameters

\* C11: the result a successful run writes holds the applied patterns: its
\* pattern list is the list of enable-directives pushed to the ESLint tool, its
\* pattern count is the length of that list, and a rule without a catalog match
\* is neither counted nor listed.
C11_ResultHoldsApplied ==
    (frame = "main" /\ result_file # <<>>) =>
        LET result == result_file[1]
        IN  /\ result.patterns_count = Len(PushedEnables)
            /\ Len(result.patterns) = Len(PushedEnables)
            /\ \A i \in 1..Len(result.patterns) :
                  i <= Len(PushedEnables)
                     => ListsDirective(result.patterns[i], PushedEnables[i])

\* the lookup keys a catalog identifier is filed under
KeysOf(id) ==
    LET base == IF StartsWith(id, ESLint8) THEN SubSeq(id, 9, Len(id)) ELSE id
    IN  {base, ReplaceSlash(base)}

\* the places of the fetched catalog a key leads to
Hits(key) ==
    {j \in 1..Len(all_patterns) :
        all_patterns[j].hasId /\ key \in KeysOf(all_patterns[j].id)}

\* the identifier a key leads to: a later catalog pattern replaces an earlier one
HitId(hits) ==
    all_patterns[CHOOSE j \in hits : \A k \in hits : k <= j].id

\* the identifier a rule resolves to: the direct lookup, and the normalized
\* name only when that misses (<<>>: no match)
Resolved(name) ==
    LET direct == Hits(name)
    IN  IF direct # {} THEN HitId(direct)
        ELSE LET normalized == Hits(ReplaceSlash(name))
             IN  IF normalized # {} THEN HitId(normalized) ELSE <<>>

RECURSIVE ResolvedDirectives(_)
\* one enable-directive for every rule that resolves, in the order of the rules
ResolvedDirectives(patterns) ==
    IF patterns = <<>> THEN <<>>
    ELSE LET id == Resolved(Head(patterns).id)
         IN  (IF id # <<>>
              THEN <<[id |-> id, enabled |-> TRUE,
                      parameters |-> GetParameters(Head(patterns))]>>
              ELSE <<>>)
             \o ResolvedDirectives(Tail(patterns))

\* C12: every translated pattern is looked up by its rule identifier and, only
\* when that misses, by the identifier with every '/' replaced by '_'; the
\* first hit wins and a rule yields at most one enable-directive.  A rule `a`
\* with the catalog entry ESLint8_a resolves directly to ESLint8_a; a rule
\* `p/a` without a direct match and with the catalog entry ESLint8_p_a resolves
\* by the normalized name.  (Stated of the lists as the reconciliation leaves
\* them; nothing changes them afterwards.)
C12_DirectThenNormalized ==
    (frame = "tool" /\ pc = "update_enabled") =>
        /\ enabled_patterns = ResolvedDirectives(tool_patterns)
        /\ Len(enabled_patterns) <= Len(tool_patterns)
        /\ \A i \in 1..Len(tool_patterns) :
              LET name == tool_patterns[i].id
              IN  /\ (name = RuleA /\ CatalogIds = {ESLint8 \o RuleA})
                        => ESLint8 \o RuleA \in EnabledIds
                  /\ (name = RulePA /\ CatalogIds = {ESLint8 \o RulePUA})
                        => ESLint8 \o RulePUA \in EnabledIds

\* rule `a` resolved directly and rule `p/a` by its normalized name, while a
\* third catalog pattern went unmatched
C12_Witness ==
    /\ frame = "tool" /\ pc = "update_enabled"
    /\ Len(tool_patterns) = 2
    /\ tool_patterns[1].id = RulePA
    /\ tool_patterns[2].id = RuleA
    /\ Hits(RulePA) = {}
    /\ Len(enabled_patterns) = 2
    /\ enabled_patterns[1].id = ESLint8 \o RulePUA
    /\ enabled_patterns[2].id = ESLint8 \o RuleA
    /\ disabled_patterns # <<>>

====
